---- MODULE Spec2Model ----
(***************************************************************************)
(* Session lifecycle of the guardian session manager (session.go) over the *)
(* pointer-holding in-memory store (memStore.go).                          *)
(*                                                                         *)
(* Sessions are heap objects: the store keeps *Session pointers, so the    *)
(* model keeps a heap of session records and a store map from key to heap  *)
(* address.  Time is an integer clock; every time.Now() of the code is one *)
(* read of it, and the clock may advance between two reads of one call.    *)
(*                                                                         *)
(* Spec      : the SessionManager's lifecycle calls over InMemoryStore.    *)
(* SpecStore : InMemoryStore's Save, Delete and Update on their own.       *)
(* SpecCodec : RenewSession and InvalidateSession over the codec-backed    *)
(*             Store, whose calls may fail and whose Update is two         *)
(*             container calls.                                            *)
(* SpecNs    : NewSessionManager calls on the namespace registry.          *)
(* SpecLock  : goroutines calling one InMemoryStore through its RWMutex.   *)
(* SpecIds   : CreateSession and RenewSession making identifiers for       *)
(*             several sessions.                                           *)
(* SpecCtx   : PopulateRequestContext on requests that carry a context.    *)
(* SpecHttp  : requests served by the SessionMiddleware handler.           *)
(* SpecCodecStore : Get, Save and Delete of the codec-backed Store, whose  *)
(*             codec and container may fail.                               *)
(* SpecFrame : the lifecycle calls under the settings of TestNoTimeExpired. *)
(* SpecNsRace : goroutines calling NewSessionManager at the same time.     *)
(* SpecRotate : goroutines rotating one stored session at the same time.   *)
(* SpecManager : the Manager variant: CreateSession, InvalidateSession and *)
(*             its middleware over a store that keeps sessions by value.   *)
(***************************************************************************)
EXTENDS Integers, Sequences, FiniteSets, TLC

\* ---------------------------------------------------------------- bounds
MaxTime == 3        \* the clock stops advancing here
MaxJitter == 0      \* how far the clock may advance while one call runs

\* ------------------------------------------------------------- constants
Valid == 0
Invalid == 1

NULL == [null |-> TRUE]
EmptyString == <<>>
ManagerID == "ns"

\* The timeout settings the tests give the manager, in seconds.
Configs ==
  { [IdleTimeout |-> 1, RenewalTimeout |-> 1, Lifetime |-> 2],
    [IdleTimeout |-> 2, RenewalTimeout |-> 1, Lifetime |-> 3] }

\* the heap cell of the session the caller holds
Addr == {1}

\* the goroutines that call one InMemoryStore at once
MaxProcs == 2
Procs == 1..MaxProcs

VARIABLES
  clock,    \* the last value time.Now() returned
  cfg,      \* the manager's IdleTimeout, RenewalTimeout, Lifetime
  heap,     \* Addr -> Session record, or NULL when not allocated
  data,     \* InMemoryStore.data: key -> Addr
  created,  \* history: Addr -> the session as CreateSession returned it
  last,     \* history: the call just made, its clock reads, the state before it
  storage,  \* the container of the codec-backed Store: key -> encoded session
  upd,      \* the Store.Update in progress on the codec-backed Store
  managerIDs,   \* the namespaces registered by NewSessionManager
  constructed,  \* history: the NewSessionManager calls made, with their results
  lock,     \* InMemoryStore.lock: the goroutines holding it, by mode
  procs,    \* the goroutines calling the InMemoryStore: position and call
  reqs,     \* the *http.Request objects made so far: cookie and context
  mstore,   \* the value-keeping store the Manager is given: key -> Session
  invalidated   \* history: the ids Manager.InvalidateSession succeeded on

nsVars == <<managerIDs, constructed>>
lockVars == <<lock, procs>>
httpVars == <<reqs>>
mgrVars == <<mstore, invalidated>>
vars == <<clock, cfg, heap, data, created, last, storage, upd, nsVars, lockVars,
          httpVars, mgrVars>>

\* ------------------------------------------------------------ time.Time
\* a comparison that also holds at the instant itself
AfterOrEqual(t, u) == t >= u

After(t, u) == t > u
Before(t, u) == t < u

\* The clock values k successive time.Now() calls of one call can return when
\* the clock stands at `from`: the clock advances by at most MaxJitter in all
\* while the call runs.
Reads(from, k) ==
  { r \in [1..k -> from..(from + MaxJitter)] :
      /\ \A i \in 1..k : r[i] <= MaxTime
      /\ \A i \in 1..(k - 1) : r[i] <= r[i + 1] }

\* ------------------------------------------------------- InMemoryStore
Get(d, sessionID) ==
  IF sessionID \in DOMAIN d
    THEN [ok |-> TRUE, session |-> d[sessionID]]
    ELSE [ok |-> FALSE, session |-> NULL]

Save(d, h, a) ==
  [k \in DOMAIN d \cup {h[a].ID} |-> IF k = h[a].ID THEN a ELSE d[k]]

\* a Delete that leaves the map as it is
DeleteNothing(d, sessionID) == d

\* a Delete that reports a key it does not find
DeleteErrIfAbsent(d, sessionID) == sessionID \notin DOMAIN d

\* the error InMemoryStore.Delete returns: always nil
DeleteErr(d, sessionID) == FALSE

Delete(d, sessionID) ==
  [k \in DOMAIN d \ {sessionID} |-> d[k]]

Update(d, sessionID, a) ==
  [k \in DOMAIN d \cup {sessionID} |-> IF k = sessionID THEN a ELSE d[k]]

\* ------------------------------------------------------ SessionManager
newSessionID(id, now) == <<id, now>>

cookieName == <<ManagerID, "_session">>

\* a CreateSession that takes the idle deadline from the lifetime setting
\* and the lifetime deadline from the idle setting
CreateSessionSwapped(r) ==
  LET id == newSessionID(ManagerID, r[1])
  IN [ID |-> id,
      Status |-> Valid,
      Data |-> <<>>,
      IdleTime |-> r[2] + cfg.Lifetime,
      LifeTime |-> r[3] + cfg.IdleTimeout,
      RenewalTime |-> r[4] + cfg.RenewalTimeout,
      CookieName |-> cookieName,
      CookieValue |-> id,
      CookieExpires |-> r[5] + cfg.Lifetime]

\* The Session value CreateSession returns; r holds its five clock reads.
CreateSession(r) ==
  LET id == newSessionID(ManagerID, r[1])
  IN [ID |-> id,
      Status |-> Valid,
      Data |-> <<>>,
      IdleTime |-> r[2] + cfg.IdleTimeout,
      LifeTime |-> r[3] + cfg.Lifetime,
      RenewalTime |-> r[4] + cfg.RenewalTimeout,
      CookieName |-> cookieName,
      CookieValue |-> id,
      CookieExpires |-> r[5] + cfg.Lifetime]

\* an InvalidateSession that adds the idle timeout to the cookie expiry
InvalidateSessionFutureExpiry(h, d, a, now) ==
  [heap |-> [h EXCEPT ![a].Status = Invalid,
                      ![a].CookieName = EmptyString,
                      ![a].CookieValue = EmptyString,
                      ![a].CookieExpires = now + cfg.IdleTimeout],
   data |-> Delete(d, h[a].ID),
   calls |-> << <<"Delete", h[a].ID>> >>]

\* Results of the lifecycle calls: the heap and the store after the call and
\* the store calls it made, in order.
InvalidateSession(h, d, a, now) ==
  [heap |-> [h EXCEPT ![a].Status = Invalid,
                      ![a].CookieName = EmptyString,
                      ![a].CookieValue = EmptyString,
                      ![a].CookieExpires = now - cfg.IdleTimeout],
   data |-> Delete(d, h[a].ID),
   calls |-> << <<"Delete", h[a].ID>> >>]

\* a RenewSession that leaves the cookie with the old identifier
RenewSessionKeepsCookie(h, d, a, now) ==
  LET newId == newSessionID(ManagerID, now)
      oldId == h[a].ID
      h2 == [h EXCEPT ![a].ID = newId,
                      ![a].Status = Valid]
  IN [heap |-> h2,
      data |-> Update(d, oldId, a),
      calls |-> << <<"Update", oldId, newId>> >>]

\* a RenewSession that also restarts the lifetime
RenewSessionExtendsLife(h, d, a, now) ==
  LET newId == newSessionID(ManagerID, now)
      oldId == h[a].ID
      h2 == [h EXCEPT ![a].ID = newId,
                      ![a].CookieValue = newId,
                      ![a].Status = Valid,
                      ![a].LifeTime = now + cfg.Lifetime]
  IN [heap |-> h2,
      data |-> Update(d, oldId, a),
      calls |-> << <<"Update", oldId, newId>> >>]

RenewSession(h, d, a, now) ==
  LET newId == newSessionID(ManagerID, now)
      oldId == h[a].ID
      h2 == [h EXCEPT ![a].ID = newId,
                      ![a].CookieValue = newId,
                      ![a].Status = Valid]
  IN [heap |-> h2,
      data |-> Update(d, oldId, a),
      calls |-> << <<"Update", oldId, newId>> >>]

\* a WatchTimeouts that looks at the renewal deadline first
WatchTimeoutsRenewalFirst(h, d, a, r) ==
  IF After(r[3], h[a].RenewalTime)
    THEN LET rn == RenewSession(h, d, a, r[4])
         IN [heap |-> [rn.heap EXCEPT ![a].RenewalTime = r[5] + cfg.RenewalTimeout,
                                      ![a].IdleTime = r[6] + cfg.IdleTimeout],
             data |-> rn.data,
             calls |-> rn.calls,
             end |-> r[6]]
    ELSE IF After(r[1], h[a].IdleTime) \/ After(r[2], h[a].LifeTime)
      THEN InvalidateSession(h, d, a, r[3]) @@ [end |-> r[3]]
      ELSE [heap |-> [h EXCEPT ![a].IdleTime = r[4] + cfg.IdleTimeout],
            data |-> d,
            calls |-> <<>>,
            end |-> r[4]]

\* a WatchTimeouts that compares the idle deadline only
WatchTimeoutsIdleOnly(h, d, a, r) ==
  IF After(r[1], h[a].IdleTime)
    THEN InvalidateSession(h, d, a, r[3]) @@ [end |-> r[3]]
    ELSE IF After(r[3], h[a].RenewalTime)
      THEN LET rn == RenewSession(h, d, a, r[4])
           IN [heap |-> [rn.heap EXCEPT ![a].RenewalTime = r[5] + cfg.RenewalTimeout,
                                        ![a].IdleTime = r[6] + cfg.IdleTimeout],
               data |-> rn.data,
               calls |-> rn.calls,
               end |-> r[6]]
      ELSE [heap |-> [h EXCEPT ![a].IdleTime = r[4] + cfg.IdleTimeout],
            data |-> d,
            calls |-> <<>>,
            end |-> r[4]]

\* a WatchTimeouts that returns once it has renewed the session
WatchTimeoutsReturnsAfterRenew(h, d, a, r) ==
  IF After(r[1], h[a].IdleTime) \/ After(r[2], h[a].LifeTime)
    THEN InvalidateSession(h, d, a, r[3]) @@ [end |-> r[3]]
    ELSE IF After(r[3], h[a].RenewalTime)
      THEN LET rn == RenewSession(h, d, a, r[4])
           IN [heap |-> [rn.heap EXCEPT ![a].RenewalTime = r[5] + cfg.RenewalTimeout],
               data |-> rn.data,
               calls |-> rn.calls,
               end |-> r[5]]
      ELSE [heap |-> [h EXCEPT ![a].IdleTime = r[4] + cfg.IdleTimeout],
            data |-> d,
            calls |-> <<>>,
            end |-> r[4]]

\* a WatchTimeouts that renews at the renewal deadline itself
WatchTimeoutsRenewalInclusive(h, d, a, r) ==
  IF After(r[1], h[a].IdleTime) \/ After(r[2], h[a].LifeTime)
    THEN InvalidateSession(h, d, a, r[3]) @@ [end |-> r[3]]
    ELSE IF ~Before(r[3], h[a].RenewalTime)
      THEN LET rn == RenewSession(h, d, a, r[4])
           IN [heap |-> [rn.heap EXCEPT ![a].RenewalTime = r[5] + cfg.RenewalTimeout,
                                        ![a].IdleTime = r[6] + cfg.IdleTimeout],
               data |-> rn.data,
               calls |-> rn.calls,
               end |-> r[6]]
      ELSE [heap |-> [h EXCEPT ![a].IdleTime = r[4] + cfg.IdleTimeout],
            data |-> d,
            calls |-> <<>>,
            end |-> r[4]]

\* a WatchTimeouts whose plain branch resets the renewal deadline as well
WatchTimeoutsResetsRenewal(h, d, a, r) ==
  IF After(r[1], h[a].IdleTime) \/ After(r[2], h[a].LifeTime)
    THEN InvalidateSession(h, d, a, r[3]) @@ [end |-> r[3]]
    ELSE IF After(r[3], h[a].RenewalTime)
      THEN LET rn == RenewSession(h, d, a, r[4])
           IN [heap |-> [rn.heap EXCEPT ![a].RenewalTime = r[5] + cfg.RenewalTimeout,
                                        ![a].IdleTime = r[6] + cfg.IdleTimeout],
               data |-> rn.data,
               calls |-> rn.calls,
               end |-> r[6]]
      ELSE [heap |-> [h EXCEPT ![a].IdleTime = r[4] + cfg.IdleTimeout,
                               ![a].RenewalTime = r[4] + cfg.RenewalTimeout],
            data |-> d,
            calls |-> <<>>,
            end |-> r[4]]

\* r holds the clock reads of the call: r[1] and r[2] are the idle and the
\* lifetime comparison; r[3] is InvalidateSession's read when one of them
\* has passed, and the renewal comparison otherwise; in the renewal branch
\* r[4] is newSessionID's read, r[5] the RenewalTime reset and r[6] the
\* IdleTime reset; without renewal r[4] is the IdleTime reset.
WatchTimeouts(h, d, a, r) ==
  IF After(r[1], h[a].IdleTime) \/ After(r[2], h[a].LifeTime)
    THEN InvalidateSession(h, d, a, r[3]) @@ [end |-> r[3]]
    ELSE IF After(r[3], h[a].RenewalTime)
      THEN LET rn == RenewSession(h, d, a, r[4])
           IN [heap |-> [rn.heap EXCEPT ![a].RenewalTime = r[5] + cfg.RenewalTimeout,
                                        ![a].IdleTime = r[6] + cfg.IdleTimeout],
               data |-> rn.data,
               calls |-> rn.calls,
               end |-> r[6]]
      ELSE [heap |-> [h EXCEPT ![a].IdleTime = r[4] + cfg.IdleTimeout],
            data |-> d,
            calls |-> <<>>,
            end |-> r[4]]

\* --------------------------------------------- Store (codec + container)
\* the Codec the Store is given: encoding keeps every field of the session
encode(session) == [bytes |-> session]
decode(b) == b.bytes

\* the container the Store is given, when its call succeeds
put(st, sessionID, b) ==
  [k \in DOMAIN st \cup {sessionID} |-> IF k = sessionID THEN b ELSE st[k]]

delete(st, sessionID) ==
  [k \in DOMAIN st \ {sessionID} |-> st[k]]

StoreGet(st, sessionID) ==
  IF sessionID \in DOMAIN st
    THEN [ok |-> TRUE, session |-> decode(st[sessionID])]
    ELSE [ok |-> FALSE, session |-> NULL]

\* Store.Save: encode, then put under the session's own identifier; ok tells
\* whether encode and put both succeed
StoreSave(st, session, ok) ==
  IF ok THEN put(st, session.ID, encode(session)) ELSE st

\* ---------------------------------------------------------------- state
NoCall == [op |-> "none", a |-> 0, key |-> EmptyString, r |-> <<>>,
           pre |-> NULL, stored |-> FALSE, calls |-> <<>>,
                err |-> FALSE, storeErr |-> FALSE]

NoUpdate == [pc |-> "idle", a |-> 0, oldID |-> EmptyString, stored |-> FALSE]

\* no manager constructed yet: the registry map is empty
NsInit ==
  /\ managerIDs = {}
  /\ constructed = <<>>

\* no request has arrived yet
HttpInit == reqs = <<>>

\* the Manager's store is empty and nothing has been invalidated
MgrInit == mstore = <<>> /\ invalidated = {}

\* a goroutine that is in no InMemoryStore call
NoProc == [pc |-> "idle", op |-> "none", snap |-> <<>>, got |-> NULL, done |-> "none"]

\* the zero sync.RWMutex: nobody holds it
RWMutex == [readers |-> {}, writer |-> {}]

\* a fresh InMemoryStore, and no goroutine in a call
LockInit ==
  /\ lock = RWMutex
  /\ procs = [p \in Procs |-> NoProc]

Init ==
  /\ clock = 0
  /\ cfg \in Configs
  /\ heap = [a \in Addr |-> NULL]
  /\ data = <<>>
  /\ created = <<>>
  /\ last = NoCall
  /\ storage = <<>>
  /\ upd = NoUpdate
  /\ NsInit
  /\ HttpInit
  /\ MgrInit
  /\ LockInit

Live == { a \in DOMAIN heap : heap[a] # NULL }

\* The identifiers a caller can name: those of the store, those of the
\* sessions it holds, and one that is in neither.
KnownIDs ==
  DOMAIN data \cup { heap[a].ID : a \in Live } \cup { newSessionID("other", 0) }

\* whether the store holds session a under the session's own identifier
Stored(d, h, a) == Get(d, h[a].ID) = [ok |-> TRUE, session |-> a]

\* time passes between calls; the requests served are gone
Tick ==
  /\ clock < MaxTime
  /\ clock' = clock + 1
  /\ last' = NoCall
  /\ reqs' = <<>>
  /\ UNCHANGED <<cfg, heap, data, created, storage, upd, nsVars, lockVars, mgrVars>>

CallCreateSession ==
  \E a \in DOMAIN heap, r \in Reads(clock, 5) :
    /\ heap[a] = NULL
    /\ heap' = [heap EXCEPT ![a] = CreateSession(r)]
    /\ created' = created @@ (a :> heap'[a])
    /\ clock' = r[5]
    /\ last' = [op |-> "CreateSession", a |-> a, key |-> heap'[a].ID, r |-> r,
                pre |-> NULL, stored |-> FALSE, calls |-> <<>>,
                err |-> FALSE, storeErr |-> FALSE]
    /\ UNCHANGED <<cfg, data, storage, upd, nsVars, lockVars, httpVars, mgrVars>>

\* the caller stores the session it holds: Store.Save(&session)
CallSave ==
  \E a \in Live :
    /\ data' = Save(data, heap, a)
    /\ last' = [op |-> "Save", a |-> a, key |-> heap[a].ID, r |-> <<>>,
                pre |-> heap[a], stored |-> Stored(data, heap, a), calls |-> <<>>,
                err |-> FALSE, storeErr |-> FALSE]
    /\ UNCHANGED <<clock, cfg, heap, created, storage, upd, nsVars, lockVars, httpVars, mgrVars>>

\* Store.Delete(sessionID), called by the caller; the history keeps, as the
\* state before, the call that came before it and whether the key was there
CallDelete ==
  \E id \in KnownIDs :
    /\ data' = Delete(data, id)
    /\ last' = [op |-> "Delete", a |-> 0, key |-> id, r |-> <<>>,
                pre |-> [op |-> last.op, key |-> last.key],
                stored |-> Get(data, id).ok, calls |-> <<>>,
                err |-> DeleteErr(data, id), storeErr |-> FALSE]
    /\ UNCHANGED <<clock, cfg, heap, created, storage, upd, nsVars, lockVars, httpVars, mgrVars>>

\* Store.Update(sessionID, &session), called by the caller
CallUpdate ==
  \E id \in KnownIDs, a \in Live :
    /\ data' = Update(data, id, a)
    /\ last' = [op |-> "Update", a |-> a, key |-> id, r |-> <<>>,
                pre |-> heap[a], stored |-> Stored(data, heap, a), calls |-> <<>>,
                err |-> FALSE, storeErr |-> FALSE]
    /\ UNCHANGED <<clock, cfg, heap, created, storage, upd, nsVars, lockVars, httpVars, mgrVars>>

CallWatchTimeouts ==
  \E a \in Live, r \in Reads(clock, 6) :
    LET w == WatchTimeouts(heap, data, a, r)
    IN /\ heap' = w.heap
       /\ data' = w.data
       /\ clock' = w.end
       /\ last' = [op |-> "WatchTimeouts", a |-> a, key |-> heap[a].ID, r |-> r,
                   pre |-> heap[a], stored |-> Stored(data, heap, a), calls |-> w.calls,
                err |-> FALSE, storeErr |-> FALSE]
       /\ UNCHANGED <<cfg, created, storage, upd, nsVars, lockVars, httpVars, mgrVars>>

CallInvalidateSession ==
  \E a \in Live, r \in Reads(clock, 1) :
    LET w == InvalidateSession(heap, data, a, r[1])
    IN /\ heap' = w.heap
       /\ data' = w.data
       /\ clock' = r[1]
       /\ last' = [op |-> "InvalidateSession", a |-> a, key |-> heap[a].ID, r |-> r,
                   pre |-> heap[a], stored |-> Stored(data, heap, a), calls |-> w.calls,
                err |-> FALSE, storeErr |-> FALSE]
       /\ UNCHANGED <<cfg, created, storage, upd, nsVars, lockVars, httpVars, mgrVars>>

CallRenewSession ==
  \E a \in Live, r \in Reads(clock, 1) :
    LET w == RenewSession(heap, data, a, r[1])
    IN /\ heap' = w.heap
       /\ data' = w.data
       /\ clock' = r[1]
       /\ last' = [op |-> "RenewSession", a |-> a, key |-> heap[a].ID, r |-> r,
                   pre |-> heap[a], stored |-> Stored(data, heap, a), calls |-> w.calls,
                err |-> FALSE, storeErr |-> FALSE]
       /\ UNCHANGED <<cfg, created, storage, upd, nsVars, lockVars, httpVars, mgrVars>>

Next ==
  \/ Tick
  \/ CallCreateSession
  \/ CallSave
  \/ CallWatchTimeouts
  \/ CallInvalidateSession
  \/ CallRenewSession

Spec == Init /\ [][Next]_vars

\* ---------------------------------------------------------------- claims
\* the store calls of the last call, by name
Called(name) == \E i \in 1..Len(last.calls) : last.calls[i][1] = name

\* the session the last call was made on, as it is now
cur == heap[last.a]

\* C1: a WatchTimeouts evaluation made when the idle window and the renewal
\* window have both elapsed invalidates the session and does not rotate it:
\* the identifier is unchanged, Store.Update is not called and the status
\* ends Invalid.
C1_Precedence ==
  ( /\ last.op = "WatchTimeouts"
    /\ After(last.r[1], last.pre.IdleTime)
    /\ After(last.r[1], last.pre.RenewalTime) )
  => /\ cur.Status = Invalid
     /\ cur.ID = last.pre.ID
     /\ ~Called("Update")
     /\ Called("Delete")

\* C1 witness: idle and renewal elapsed, lifetime not, on a Valid session.
C1_Witness ==
  /\ last.op = "WatchTimeouts"
  /\ last.pre.Status = Valid
  /\ After(last.r[1], last.pre.IdleTime)
  /\ After(last.r[1], last.pre.RenewalTime)
  /\ ~After(last.r[6], last.pre.LifeTime)
  /\ cur.Status = Invalid

\* C2: for a stored session whose renewal window has elapsed and whose idle
\* and lifetime windows have not, WatchTimeouts gives the session a new
\* identifier, sets the cookie value to it, keeps the status Valid, moves
\* RenewalTime and IdleTime later, and afterwards Store.Get of the old
\* identifier fails and Store.Get of the new identifier returns the session.
C2_Rotation ==
  ( /\ last.op = "WatchTimeouts"
    /\ last.stored
    /\ last.pre.Status = Valid
    /\ ~After(last.r[1], last.pre.IdleTime)
    /\ ~After(last.r[2], last.pre.LifeTime)
    /\ After(last.r[3], last.pre.RenewalTime) )
  => /\ cur.ID # last.pre.ID
     /\ cur.CookieValue = cur.ID
     /\ cur.Status = Valid
     /\ After(cur.RenewalTime, last.pre.RenewalTime)
     /\ After(cur.IdleTime, last.pre.IdleTime)
     /\ ~Get(data, last.pre.ID).ok
     /\ Get(data, cur.ID) = [ok |-> TRUE, session |-> last.a]

\* C3: a WatchTimeouts evaluation made past the idle deadline or past the
\* lifetime deadline leaves the session Invalid, with an empty cookie value
\* and a cookie expiry before the current time, and Store.Get of the
\* session's identifier fails.
C3_TimeoutInvalidation ==
  ( /\ last.op = "WatchTimeouts"
    /\ \/ After(last.r[1], last.pre.IdleTime)
       \/ After(last.r[1], last.pre.LifeTime) )
  => /\ cur.Status = Invalid
     /\ cur.CookieValue = EmptyString
     /\ Before(cur.CookieExpires, clock)
     /\ ~Get(data, cur.ID).ok

\* C3 witness: a stored Valid session past its lifetime only is invalidated.
C3_Witness ==
  /\ last.op = "WatchTimeouts"
  /\ last.stored
  /\ last.pre.Status = Valid
  /\ ~After(last.r[6], last.pre.IdleTime)
  /\ ~After(last.r[6], last.pre.RenewalTime)
  /\ After(last.r[1], last.pre.LifeTime)
  /\ cur.Status = Invalid
  /\ ~Get(data, cur.ID).ok

\* C4: an evaluation made after the lifetime deadline the session was created
\* with invalidates it, whatever idle resets and rotations came before.
C4_LifetimeCap ==
  ( /\ last.op = "WatchTimeouts"
    /\ After(last.r[1], created[last.a].LifeTime) )
  => cur.Status = Invalid

\* C4 witness: a session kept active and rotated since its creation is
\* evaluated past its creation lifetime, inside its idle window.
C4_Witness ==
  /\ last.op = "WatchTimeouts"
  /\ last.pre.Status = Valid
  /\ last.pre.ID # created[last.a].ID
  /\ After(last.pre.IdleTime, created[last.a].IdleTime)
  /\ ~After(last.r[6], last.pre.IdleTime)
  /\ After(last.r[1], created[last.a].LifeTime)
  /\ cur.Status = Invalid

\* C5: the LifeTime of a session is the one CreateSession gave it, after any
\* sequence of WatchTimeouts, RenewSession and InvalidateSession calls.
C5_LifeTimeFixed ==
  \A a \in Live : heap[a].LifeTime = created[a].LifeTime

\* C5 witness: a session that has been rotated and then invalidated.
C5_Witness ==
  /\ last.op \in {"WatchTimeouts", "InvalidateSession"}
  /\ last.pre.ID # created[last.a].ID
  /\ cur.Status = Invalid
  /\ cur.LifeTime = created[last.a].LifeTime

\* C6: once a session is Invalid, no WatchTimeouts or RenewSession call sets
\* its status back to Valid, resets its deadlines or makes it fetchable again.
C6_InvalidTerminal ==
  [][ \A a \in Live :
        ( /\ heap[a].Status = Invalid
          /\ last'.op \in {"WatchTimeouts", "RenewSession"}
          /\ last'.a = a )
        => /\ heap'[a].Status = Invalid
           /\ heap'[a].IdleTime = heap[a].IdleTime
           /\ heap'[a].RenewalTime = heap[a].RenewalTime
           /\ (\A k \in DOMAIN data' : data'[k] = a => k \in DOMAIN data /\ data[k] = a)
    ]_vars

\* C7: InvalidateSession, whatever the deadlines, leaves the status Invalid,
\* the cookie value empty and the cookie expiry before the current time, and
\* Store.Get of the identifier the session had fails.
C7_ManualInvalidation ==
  last.op = "InvalidateSession"
  => /\ cur.Status = Invalid
     /\ cur.CookieValue = EmptyString
     /\ Before(cur.CookieExpires, clock)
     /\ ~Get(data, last.pre.ID).ok

\* C7 witness: a stored session invalidated with every deadline in the future.
C7_Witness ==
  /\ last.op = "InvalidateSession"
  /\ last.stored
  /\ last.pre.Status = Valid
  /\ Before(clock, last.pre.IdleTime)
  /\ Before(clock, last.pre.RenewalTime)
  /\ Before(clock, last.pre.LifeTime)
  /\ ~Get(data, last.pre.ID).ok

\* C8: a WatchTimeouts evaluation that does not invalidate the session sets
\* IdleTime to the time of the evaluation plus the manager's IdleTimeout.
C8_IdleReset ==
  ( /\ last.op = "WatchTimeouts"
    /\ ~Called("Delete") )
  => cur.IdleTime = clock + cfg.IdleTimeout

\* C8 witness: an evaluation that rotated the identifier and reset IdleTime.
C8_Witness ==
  /\ last.op = "WatchTimeouts"
  /\ Called("Update")
  /\ cur.ID # last.pre.ID
  /\ cur.IdleTime = clock + cfg.IdleTimeout
  /\ cur.IdleTime # last.pre.IdleTime

\* ------------------------------------------------ the in-memory store alone
MaxRecords == 2     \* sessions the caller of the store holds
MaxKeys == 2        \* identifiers those sessions have

StoreIDs == { newSessionID(ManagerID, t) : t \in 0..(MaxKeys - 1) }

StoreInit ==
  /\ clock = 0
  /\ cfg \in Configs
  /\ heap \in [1..MaxRecords ->
                { [CreateSession(<<0, 0, 0, 0, 0>>) EXCEPT !.ID = id, !.CookieValue = id] :
                    id \in StoreIDs }]
  /\ data = <<>>
  /\ created = heap
  /\ last = NoCall
  /\ storage = <<>>
  /\ upd = NoUpdate
  /\ NsInit
  /\ HttpInit
  /\ MgrInit
  /\ LockInit

StoreNext ==
  \/ CallSave
  \/ CallDelete
  \/ CallUpdate

SpecStore == StoreInit /\ [][StoreNext]_vars

\* ------------------------------- SessionManager over the codec-backed Store
\* Store.Save(&session) by the caller; the container or the codec may fail
CodecSave ==
  \E a \in Live, ok \in BOOLEAN :
    /\ upd.pc = "idle"
    /\ storage' = StoreSave(storage, heap[a], ok)
    /\ last' = [op |-> "Save", a |-> a, key |-> heap[a].ID, r |-> <<>>,
                pre |-> heap[a], stored |-> heap[a].ID \in DOMAIN storage,
                calls |-> <<>>,
                err |-> ~ok, storeErr |-> ~ok]
    /\ UNCHANGED <<clock, cfg, heap, data, created, upd, nsVars, lockVars, httpVars, mgrVars>>

CodecCreateSession ==
  /\ upd.pc = "idle"
  /\ CallCreateSession

CodecTick ==
  /\ upd.pc = "idle"
  /\ Tick

\* RenewSession up to its call of Store.Update: the session has its new
\* identifier, the container still has the old key
CodecRenewSession ==
  \E a \in Live, r \in Reads(clock, 1) :
    LET newId == newSessionID(ManagerID, r[1])
    IN /\ upd.pc = "idle"
       /\ heap' = [heap EXCEPT ![a].ID = newId,
                               ![a].CookieValue = newId,
                               ![a].Status = Valid]
       /\ clock' = r[1]
       /\ upd' = [pc |-> "delete", a |-> a, oldID |-> heap[a].ID,
                  stored |-> heap[a].ID \in DOMAIN storage]
       /\ last' = [op |-> "RenewSession", a |-> a, key |-> heap[a].ID, r |-> r,
                   pre |-> heap[a], stored |-> heap[a].ID \in DOMAIN storage,
                   calls |-> <<>>,
                err |-> FALSE, storeErr |-> FALSE]
       /\ UNCHANGED <<cfg, data, created, storage, nsVars, lockVars, httpVars, mgrVars>>

\* an InvalidateSession that returns when Store.Delete fails
CodecInvalidateSessionReturnsOnError ==
  \E a \in Live, r \in Reads(clock, 1), ok \in BOOLEAN :
    /\ upd.pc = "idle"
    /\ storage' = IF ok THEN delete(storage, heap[a].ID) ELSE storage
    /\ heap' = IF ok THEN InvalidateSession(heap, data, a, r[1]).heap ELSE heap
    /\ clock' = r[1]
    /\ last' = [op |-> "InvalidateSession", a |-> a, key |-> heap[a].ID, r |-> r,
                pre |-> heap[a], stored |-> heap[a].ID \in DOMAIN storage,
                calls |-> << <<"Delete", heap[a].ID>> >>,
                err |-> FALSE, storeErr |-> ~ok]
    /\ UNCHANGED <<cfg, data, created, upd, nsVars, lockVars, httpVars, mgrVars>>

\* InvalidateSession over the codec-backed Store: Store.Delete is the
\* container's delete, which may fail; the error is logged and the session is
\* invalidated all the same.  InvalidateSession returns nothing.
CodecInvalidateSession ==
  \E a \in Live, r \in Reads(clock, 1), ok \in BOOLEAN :
    /\ upd.pc = "idle"
    /\ storage' = IF ok THEN delete(storage, heap[a].ID) ELSE storage
    /\ heap' = InvalidateSession(heap, data, a, r[1]).heap
    /\ clock' = r[1]
    /\ last' = [op |-> "InvalidateSession", a |-> a, key |-> heap[a].ID, r |-> r,
                pre |-> heap[a], stored |-> heap[a].ID \in DOMAIN storage,
                calls |-> << <<"Delete", heap[a].ID>> >>,
                err |-> FALSE, storeErr |-> ~ok]
    /\ UNCHANGED <<cfg, data, created, upd, nsVars, lockVars, httpVars, mgrVars>>

\* Store.Update, first call: storage.delete(sessionID); an error returns
UpdateDelete ==
  \E ok \in BOOLEAN :
    /\ upd.pc = "delete"
    /\ storage' = IF ok THEN delete(storage, upd.oldID) ELSE storage
    /\ upd' = IF ok THEN [upd EXCEPT !.pc = "save"] ELSE NoUpdate
    /\ last' = [last EXCEPT !.storeErr = ~ok]
    /\ UNCHANGED <<clock, cfg, heap, data, created, nsVars, lockVars, httpVars, mgrVars>>

\* a Store.Update that returns nil when its Save fails
UpdateSaveSwallowsError ==
  \E ok \in BOOLEAN :
    /\ upd.pc = "save"
    /\ storage' = StoreSave(storage, heap[upd.a], ok)
    /\ upd' = NoUpdate
    /\ last' = [last EXCEPT !.storeErr = FALSE]
    /\ UNCHANGED <<clock, cfg, heap, data, created, nsVars, lockVars, httpVars, mgrVars>>

\* Store.Update, second call: s.Save(newSession), whose error Update returns
UpdateSave ==
  \E ok \in BOOLEAN :
    /\ upd.pc = "save"
    /\ storage' = StoreSave(storage, heap[upd.a], ok)
    /\ upd' = NoUpdate
    /\ last' = [last EXCEPT !.storeErr = ~ok]
    /\ UNCHANGED <<clock, cfg, heap, data, created, nsVars, lockVars, httpVars, mgrVars>>

CodecNext ==
  \/ CodecTick
  \/ CodecCreateSession
  \/ CodecSave
  \/ CodecRenewSession
  \/ CodecInvalidateSession
  \/ UpdateDelete
  \/ UpdateSave

SpecCodec == Init /\ [][CodecNext]_vars

\* C9: Store.Update has replace semantics: the store after
\* Update(oldID, newRecord) is the store after Delete(oldID) followed by
\* Save(newRecord).
C9_UpdateReplaces ==
  [][ last'.op = "Update"
      => data' = Save(Delete(data, last'.key), heap, last'.a) ]_vars

\* C10: while an identifier rotation is in progress the session that was in
\* the store is fetchable under its old or under its new identifier.
C10_RotationOrdering ==
  ( /\ upd.pc # "idle"
    /\ upd.stored
    /\ upd.oldID # heap[upd.a].ID )
  => \/ StoreGet(storage, upd.oldID).ok
     \/ StoreGet(storage, heap[upd.a].ID).ok

\* C11: immediately after CreateSession returns a session, Store.Get of the
\* session's identifier on the manager's store succeeds and returns that
\* session, with status Valid.
C11_CreationPersists ==
  last.op = "CreateSession"
  => /\ Get(data, cur.ID) = [ok |-> TRUE, session |-> last.a]
     /\ cur.Status = Valid

\* C12 as stated: a WatchTimeouts evaluation made at a time exactly equal to
\* the session's IdleTime, or exactly equal to its LifeTime, invalidates the
\* session.
C12_ExpiryInclusive ==
  ( /\ last.op = "WatchTimeouts"
    /\ \/ last.r[1] = last.pre.IdleTime
       \/ last.r[2] = last.pre.LifeTime )
  => cur.Status = Invalid

\* C12, amended: the expiry comparison is strict.  WatchTimeouts invalidates
\* the session exactly when it is evaluated strictly after IdleTime or
\* strictly after LifeTime; an evaluation at a time equal to IdleTime or to
\* LifeTime, and after neither, deletes nothing and leaves a Valid session
\* Valid.
C12_ExpiryStrict ==
  last.op = "WatchTimeouts"
  => /\ Called("Delete")
        <=> (last.r[1] > last.pre.IdleTime \/ last.r[2] > last.pre.LifeTime)
     /\ ( /\ last.r[1] <= last.pre.IdleTime
          /\ last.r[2] <= last.pre.LifeTime
          /\ last.pre.Status = Valid )
        => cur.Status = Valid

\* C12 witness: a Valid session evaluated at the instant of its IdleTime and
\* of its LifeTime stays Valid.
C12_Witness ==
  /\ last.op = "WatchTimeouts"
  /\ last.pre.Status = Valid
  /\ last.r[1] = last.pre.IdleTime
  /\ last.r[2] = last.pre.LifeTime
  /\ ~Called("Delete")
  /\ cur.Status = Valid

\* C13 as stated: a WatchTimeouts evaluation made at a time exactly equal to
\* the session's RenewalTime, before IdleTime and LifeTime, rotates the
\* identifier and sets RenewalTime to that time plus RenewalTimeout.
C13_RenewalInclusive ==
  ( /\ last.op = "WatchTimeouts"
    /\ last.r[3] = last.pre.RenewalTime
    /\ last.r[1] < last.pre.IdleTime
    /\ last.r[2] < last.pre.LifeTime )
  => /\ cur.ID # last.pre.ID
     /\ cur.RenewalTime = last.r[3] + cfg.RenewalTimeout

\* C13, amended: the renewal comparison is strict.  A WatchTimeouts
\* evaluation that does not invalidate the session rotates the identifier
\* exactly when it is made strictly after RenewalTime, and then sets
\* RenewalTime to the time of the reset plus RenewalTimeout; made at a time
\* equal to RenewalTime it keeps the identifier and RenewalTime.
C13_RenewalStrict ==
  ( /\ last.op = "WatchTimeouts"
    /\ last.r[1] <= last.pre.IdleTime
    /\ last.r[2] <= last.pre.LifeTime )
  => IF last.r[3] > last.pre.RenewalTime
       THEN /\ Called("Update")
            /\ cur.ID = newSessionID(ManagerID, last.r[4])
            /\ cur.RenewalTime = last.r[5] + cfg.RenewalTimeout
       ELSE /\ ~Called("Update")
            /\ cur.ID = last.pre.ID
            /\ cur.RenewalTime = last.pre.RenewalTime

\* C13 witness: a Valid session evaluated at the instant of its RenewalTime,
\* before IdleTime and LifeTime, keeps its identifier and its RenewalTime.
C13_Witness ==
  /\ last.op = "WatchTimeouts"
  /\ last.pre.Status = Valid
  /\ last.r[3] = last.pre.RenewalTime
  /\ last.r[1] < last.pre.IdleTime
  /\ last.r[2] < last.pre.LifeTime
  /\ cur.ID = last.pre.ID
  /\ cur.RenewalTime = last.pre.RenewalTime

\* ------------------------------------------------- the namespace registry
MaxManagers == 4    \* NewSessionManager calls made

\* the namespaces the tests and the README construct managers with
Namespaces == {"one", "myapp", "test_manager"}

\* the stores the tests and the README give NewSessionManager
Stores == {"InMemoryStore", "MockStorage"}

\* time.Minute and time.Hour, in seconds
Minute == 60
Hour == 60 * Minute

\* the key NewSessionManager makes: the hex md5 of the namespace and the
\* nanosecond time of construction, as a contextKey
contextKey(id, now) == <<"contextKey", id, now>>

\* a NewSessionManager that forgets to register the namespace
NewSessionManagerNoRegister(ids, namespace, store, now) ==
  IF namespace \in ids
    THEN [ids |-> ids, err |-> TRUE, manager |-> NULL]
    ELSE [ids |-> ids, err |-> FALSE,
          manager |-> [Store |-> store,
                       id |-> namespace,
                       cookieName |-> <<namespace, "_session">>,
                       contextKey |-> contextKey(namespace, now),
                       IdleTimeout |-> 15 * Minute,
                       Lifetime |-> 2 * Hour,
                       RenewalTimeout |-> Minute]]

\* a NewSessionManager with the timeouts of NewManager
NewSessionManagerShortIdle(ids, namespace, store, now) ==
  IF namespace \in ids
    THEN [ids |-> ids, err |-> TRUE, manager |-> NULL]
    ELSE [ids |-> ids \cup {namespace}, err |-> FALSE,
          manager |-> [Store |-> store,
                       id |-> namespace,
                       cookieName |-> <<namespace, "_session">>,
                       contextKey |-> contextKey(namespace, now),
                       IdleTimeout |-> 3 * Minute,
                       Lifetime |-> 2 * Hour,
                       RenewalTimeout |-> Minute]]

\* NewSessionManager(namespace, store): ids is the managerIDs map, whose keys
\* are the registered namespaces, and now is what time.Now() returns; a taken
\* namespace returns the zero SessionManager and an error
NewSessionManager(ids, namespace, store, now) ==
  IF namespace \in ids
    THEN [ids |-> ids, err |-> TRUE, manager |-> NULL]
    ELSE [ids |-> ids \cup {namespace}, err |-> FALSE,
          manager |-> [Store |-> store,
                       id |-> namespace,
                       cookieName |-> <<namespace, "_session">>,
                       contextKey |-> contextKey(namespace, now),
                       IdleTimeout |-> 15 * Minute,
                       Lifetime |-> 2 * Hour,
                       RenewalTimeout |-> Minute]]

CallNewSessionManager ==
  \E namespace \in Namespaces, store \in Stores, r \in Reads(clock, 1) :
    LET m == NewSessionManager(managerIDs, namespace, store, r[1])
    IN /\ Len(constructed) < MaxManagers
       /\ managerIDs' = m.ids
       /\ constructed' = Append(constructed, [namespace |-> namespace,
                                              store |-> store,
                                              err |-> m.err,
                                              manager |-> m.manager])
       /\ clock' = IF m.err THEN clock ELSE r[1]
       /\ UNCHANGED <<cfg, heap, data, created, last, storage, upd, lockVars, httpVars, mgrVars>>

NsNext == CallNewSessionManager

SpecNs == Init /\ [][NsNext]_vars

\* C14: the first NewSessionManager call with a namespace succeeds; every
\* later call with the same namespace returns an error and registers nothing;
\* calls with different namespaces all succeed.  So a call fails exactly when
\* an earlier call named its namespace, and the registry holds exactly the
\* namespaces of the calls that succeeded.
C14_NamespaceUnique ==
  /\ \A i \in 1..Len(constructed) :
       constructed[i].err
         <=> \E j \in 1..(i - 1) : constructed[j].namespace = constructed[i].namespace
  /\ \A i \in 1..Len(constructed) :
       ~constructed[i].err => constructed[i].manager.id = constructed[i].namespace
  /\ managerIDs = { constructed[i].namespace : i \in { j \in 1..Len(constructed) : ~constructed[j].err } }

\* C14 witness: a namespace is taken, refused, a different namespace is
\* accepted, and the first namespace is refused again.
C14_Witness ==
  \E i, j, k, l \in 1..Len(constructed) :
    /\ i < j /\ j < k /\ k < l
    /\ constructed[j].namespace = constructed[i].namespace
    /\ constructed[l].namespace = constructed[i].namespace
    /\ constructed[k].namespace # constructed[i].namespace
    /\ ~constructed[i].err /\ constructed[j].err
    /\ ~constructed[k].err /\ constructed[l].err

\* C15: what a request writes to a session it loaded from the store is not
\* seen through Store.Get until it is saved: the record the in-memory store
\* holds under a key changes only in a step that calls Save, Update or Delete.
C15_RequestLocal ==
  [][ ( /\ last'.op \notin {"Save", "Update", "Delete"}
        /\ last'.calls = <<>> )
      => \A k \in DOMAIN data :
           /\ Get(data', k).ok
           /\ heap'[Get(data', k).session] = heap[Get(data, k).session]
    ]_vars

\* ------------------------------------ goroutines calling one InMemoryStore
\* Every goroutine holds one session of its own and calls Get, Save, Delete
\* and Update with that session and its identifier.  A method is three steps:
\* take the lock, access the map, release the lock (the deferred unlock).
\* The map access works on the map as the goroutine found it on entry, so an
\* access that overlaps another one loses the other's write.
StoreOps == {"Get", "Save", "Delete", "Update"}

ProcID(p) == newSessionID(ManagerID, p)

\* a lock that lets every writer in
CanLockUnguarded(l) == TRUE

\* a lock that lets a reader in beside a writer
CanRLockUnguarded(l) == TRUE

\* sync.RWMutex: RLock waits for the writer, Lock for the writer and readers
CanRLock(l) == l.writer = {}
CanLock(l) == l.writer = {} /\ l.readers = {}

RLock(l, p) == [l EXCEPT !.readers = @ \cup {p}]
RUnlock(l, p) == [l EXCEPT !.readers = @ \ {p}]
Lock(l, p) == [l EXCEPT !.writer = @ \cup {p}]
Unlock(l, p) == [l EXCEPT !.writer = @ \ {p}]

LockSpecInit ==
  /\ clock = 0
  /\ cfg = CHOOSE c \in Configs : c.IdleTimeout = 1
  /\ heap = [p \in Procs |->
               [CreateSession(<<0, 0, 0, 0, 0>>) EXCEPT !.ID = ProcID(p),
                                                        !.CookieValue = ProcID(p)]]
  /\ data = <<>>
  /\ created = heap
  /\ last = NoCall
  /\ storage = <<>>
  /\ upd = NoUpdate
  /\ NsInit
  /\ HttpInit
  /\ MgrInit
  /\ lock = RWMutex
  /\ procs = [p \in Procs |-> NoProc]

\* goroutine p calls a method of the store
StoreCall(p) ==
  \E op \in StoreOps :
    /\ procs[p].pc = "idle"
    /\ procs' = [procs EXCEPT ![p] = [@ EXCEPT !.pc = "lock", !.op = op]]
    /\ UNCHANGED <<clock, cfg, heap, data, created, last, storage, upd, nsVars, lock, httpVars, mgrVars>>

\* s.lock.RLock() in Get, s.lock.Lock() in Save, Delete and Update
StoreLock(p) ==
  /\ procs[p].pc = "lock"
  /\ IF procs[p].op = "Get"
       THEN CanRLock(lock) /\ lock' = RLock(lock, p)
       ELSE CanLock(lock) /\ lock' = Lock(lock, p)
  /\ procs' = [procs EXCEPT ![p] = [@ EXCEPT !.pc = "map", !.snap = data]]
  /\ UNCHANGED <<clock, cfg, heap, data, created, last, storage, upd, nsVars, httpVars, mgrVars>>

\* the map access of the method
StoreAccess(p) ==
  /\ procs[p].pc = "map"
  /\ data' = CASE procs[p].op = "Get" -> data
               [] procs[p].op = "Save" -> Save(procs[p].snap, heap, p)
               [] procs[p].op = "Delete" -> Delete(procs[p].snap, ProcID(p))
               [] procs[p].op = "Update" -> Update(procs[p].snap, ProcID(p), p)
  /\ procs' = [procs EXCEPT ![p] =
                 [@ EXCEPT !.pc = "unlock",
                           !.snap = <<>>,
                           !.got = IF procs[p].op = "Get"
                                     THEN Get(procs[p].snap, ProcID(p))
                                     ELSE NULL]]
  /\ UNCHANGED <<clock, cfg, heap, created, last, storage, upd, nsVars, lock, httpVars, mgrVars>>

\* the deferred RUnlock / Unlock; the method returns
StoreUnlock(p) ==
  /\ procs[p].pc = "unlock"
  /\ lock' = IF procs[p].op = "Get" THEN RUnlock(lock, p) ELSE Unlock(lock, p)
  /\ procs' = [procs EXCEPT ![p] =
                 [@ EXCEPT !.pc = "idle",
                           !.op = "none",
                           !.got = NULL,
                           !.done = IF procs[p].op = "Get" THEN @ ELSE procs[p].op]]
  /\ UNCHANGED <<clock, cfg, heap, data, created, last, storage, upd, nsVars, httpVars, mgrVars>>

LockNext ==
  \/ \E p \in Procs : StoreCall(p)
  \/ \E p \in Procs : StoreLock(p)
  \/ \E p \in Procs : StoreAccess(p)
  \/ \E p \in Procs : StoreUnlock(p)

SpecLock == LockSpecInit /\ [][LockNext]_vars

\* C17: goroutines that each call Save, Get and Delete with their own
\* identifier on the InMemoryStore of memStore.go get what they would get
\* alone: whenever a goroutine has no write in progress, its identifier is
\* fetchable with its session if its last write was a Save (or Update) and
\* absent if it was a Delete or there was none, and a Get that has read the
\* map has read exactly that.
C17_NoLostUpdates ==
  \A p \in Procs :
    LET own == Get(data, ProcID(p))
    IN /\ (procs[p].pc = "idle" \/ procs[p].op = "Get")
          => /\ procs[p].done \in {"Save", "Update"}
                  => own = [ok |-> TRUE, session |-> p]
             /\ procs[p].done \in {"Delete", "none"} => ~own.ok
       /\ procs[p].got # NULL => procs[p].got = own

\* C17 witness: one goroutine saved last and has returned, its session is
\* fetchable; another deleted last, its identifier is absent and its Get,
\* about to return, has not found it.
C17_Witness ==
  \E p, q \in Procs :
       /\ procs[p].pc = "idle"
       /\ procs[p].done = "Save"
       /\ Get(data, ProcID(p)) = [ok |-> TRUE, session |-> p]
       /\ procs[q].pc = "unlock"
       /\ procs[q].done = "Delete"
       /\ ~Get(data, ProcID(q)).ok
       /\ procs[q].got = [ok |-> FALSE, session |-> NULL]

\* the goroutines inside the map access, by kind
Writers == { p \in Procs : procs[p].pc = "map" /\ procs[p].op # "Get" }
Readers == { p \in Procs : procs[p].pc = "map" /\ procs[p].op = "Get" }

\* C16: on one InMemoryStore, under any interleaving of Get, Save, Delete and
\* Update calls, at most one writer is inside the map access at a time and no
\* reader is inside it while a writer is; several readers may be inside it
\* together (the witness).
C16_Exclusion ==
  /\ Cardinality(Writers) <= 1
  /\ Writers # {} => Readers = {}

\* C16 witness: two Get calls are inside the map access at the same time.
C16_Witness ==
  /\ Cardinality(Readers) >= 2
  /\ Writers = {}

\* C18: Store.Delete of an identifier that is not in the store returns
\* success and leaves the store as it was; so does calling it again.
C18_DeleteIdempotent ==
  [][ ( /\ last'.op = "Delete"
        /\ ~Get(data, last'.key).ok )
      => /\ ~last'.err
         /\ data' = data
    ]_vars

\* C18 witness: on a store that holds a session, an identifier was deleted
\* and the very next call deleted it again; the second Delete found nothing
\* and returned no error.
C18_Witness ==
  /\ last.op = "Delete"
  /\ last.pre.op = "Delete"
  /\ last.pre.key = last.key
  /\ ~last.stored
  /\ ~last.err
  /\ data # <<>>

\* C19: when Store.Delete returns an error during InvalidateSession, the
\* session still ends Invalid, with an empty cookie value and a cookie expiry
\* before the current time.
C19_FailSafeInvalidation ==
  ( /\ last.op = "InvalidateSession"
    /\ last.storeErr )
  => /\ cur.Status = Invalid
     /\ cur.CookieValue = EmptyString
     /\ Before(cur.CookieExpires, clock)

\* C19 witness: the Delete of a stored Valid session failed, the record is
\* still in the container, and the session the caller holds is Invalid.
C19_Witness ==
  /\ last.op = "InvalidateSession"
  /\ last.storeErr
  /\ last.stored
  /\ last.pre.Status = Valid
  /\ StoreGet(storage, last.pre.ID).ok
  /\ cur.Status = Invalid
  /\ cur.CookieValue = EmptyString

\* C20: when Store.Update fails while RenewSession rotates the identifier,
\* the caller is told: once the call is over, a failed Update has come back
\* to the caller as an error, and a session handed back without an error is
\* in the store under its new identifier if it was there under its old one.
C20_RotationErrorsSurfaced ==
  ( /\ last.op = "RenewSession"
    /\ upd.pc = "idle" )
  => /\ last.storeErr => last.err
     /\ (~last.err /\ last.stored) => StoreGet(storage, cur.ID).ok

\* C21: the codec-backed Store.Update.  When the container's delete of the
\* old identifier fails, Update returns the error, does not call Save and
\* leaves the container as it was.  When the delete succeeds and the Save
\* that follows fails, Update returns the error and the container holds
\* neither the old record nor the new one; when the Save succeeds Update
\* returns nil.
C21_UpdatePartialFailure ==
  [][ /\ (upd.pc = "delete" /\ upd'.pc = "idle")
         => last'.storeErr /\ storage' = storage
      /\ (upd.pc = "delete" /\ upd'.pc = "save")
         => ~StoreGet(storage', upd.oldID).ok
      /\ (upd.pc = "save" /\ ~StoreGet(storage', heap[upd.a].ID).ok)
         => last'.storeErr /\ ~StoreGet(storage', upd.oldID).ok
      /\ (upd.pc = "save" /\ StoreGet(storage', heap[upd.a].ID).ok)
         => ~last'.storeErr
    ]_vars

\* C21 witness: a session that was in the container is rotated, the delete
\* succeeds and the Save fails: Update has returned an error and the
\* container has the session under neither identifier.
C21_Witness ==
  /\ last.op = "RenewSession"
  /\ upd.pc = "idle"
  /\ last.stored
  /\ last.storeErr
  /\ cur.ID # last.pre.ID
  /\ ~StoreGet(storage, last.pre.ID).ok
  /\ ~StoreGet(storage, cur.ID).ok

\* C22: RenewSession changes only the session's ID and cookie value, both to
\* the one new identifier; Data, the deadlines, the status, the cookie name
\* and the cookie expiry stay as they were, and the record fetchable under
\* the new identifier carries the Data the session had.
C22_RotationPreserves ==
  last.op = "RenewSession"
  => /\ cur = [last.pre EXCEPT !.ID = cur.ID, !.CookieValue = cur.ID]
     /\ last.stored
        => /\ Get(data, cur.ID).ok
           /\ heap[Get(data, cur.ID).session].Data = last.pre.Data

\* C23: after any sequence of CreateSession, WatchTimeouts, RenewSession and
\* InvalidateSession calls, a Valid session's cookie value is its identifier
\* and an Invalid session's cookie value is empty.
C23_CookieAgreement ==
  \A a \in Live :
    /\ heap[a].Status = Valid => heap[a].CookieValue = heap[a].ID
    /\ heap[a].Status = Invalid => heap[a].CookieValue = EmptyString

\* C23 witness: a session that was invalidated and then given a new
\* identifier by a rotation carries that identifier in its cookie.
C23_Witness ==
  /\ last.op \in {"WatchTimeouts", "RenewSession"}
  /\ last.pre.Status = Invalid
  /\ last.pre.CookieValue = EmptyString
  /\ cur.Status = Valid
  /\ cur.ID # last.pre.ID
  /\ cur.CookieValue = cur.ID

\* ------------------------------------------- several sessions of one manager
MaxSessions == 2    \* sessions the callers hold

\* nothing created yet, room for MaxSessions sessions
IdInit ==
  /\ clock = 0
  /\ cfg \in Configs
  /\ heap = [a \in 1..MaxSessions |-> NULL]
  /\ data = <<>>
  /\ created = <<>>
  /\ last = NoCall
  /\ storage = <<>>
  /\ upd = NoUpdate
  /\ NsInit
  /\ HttpInit
  /\ MgrInit
  /\ LockInit

IdNext ==
  \/ Tick
  \/ CallCreateSession
  \/ CallSave
  \/ CallRenewSession

SpecIds == IdInit /\ [][IdNext]_vars

\* C24: on one manager, whatever CreateSession and RenewSession calls are
\* made, also two that read the same clock value, no two Valid sessions have
\* the same identifier, and an identifier CreateSession has just made is not
\* a key of the store.
C24_IdentifierUnique ==
  /\ \A a, b \in Live :
       (a # b /\ heap[a].Status = Valid /\ heap[b].Status = Valid)
       => heap[a].ID # heap[b].ID
  /\ last.op = "CreateSession" => cur.ID \notin DOMAIN data

\* ------------------------------------------------ requests and their context
MaxCtx == 2         \* values a request's context holds when it arrives
MaxRequests == 3    \* *http.Request objects in all

\* the request carries no cookie of the manager's name
NoCookie == [none |-> TRUE]

\* Context keys are typed.  The manager's key is a contextKey made of the
\* namespace and the time of construction; the keys other packages put into
\* the context have types of their own.
ManagerContextKey == contextKey(ManagerID, 0)
OtherKeys == { <<"key", "foo">>, <<"key", "baz">> }
OtherValues == { [string |-> "bar"], [string |-> "qux"] }

\* context.Context: a chain of WithValue links over context.Background();
\* Value finds the innermost link with the key, or nil
Background == <<>>

WithValue(ctx, k, v) == Append(ctx, <<k, v>>)

RECURSIVE Value(_, _)
Value(ctx, k) ==
  IF ctx = Background THEN NULL
  ELSE IF ctx[Len(ctx)][1] = k THEN ctx[Len(ctx)][2]
  ELSE Value(SubSeq(ctx, 1, Len(ctx) - 1), k)

\* r.WithContext(ctx): a new request, a shallow copy of r with ctx as context
WithContext(rs, r, ctx) ==
  [reqs |-> Append(rs, [rs[r] EXCEPT !.ctx = ctx]), r |-> Len(rs) + 1]

\* a PopulateRequestContext that gives the request it was handed a context
\* with the session alone
PopulateRequestContextInPlace(rs, r, session) ==
  [reqs |-> [rs EXCEPT ![r].ctx = WithValue(Background, ManagerContextKey, session)],
   r |-> r]

\* PopulateRequestContext(r, session): the request it returns
PopulateRequestContext(rs, r, session) ==
  WithContext(rs, r, WithValue(rs[r].ctx, ManagerContextKey, session))

\* the contexts a request can arrive with
Contexts ==
  UNION { [1..n -> OtherKeys \X OtherValues] : n \in 0..MaxCtx }

CtxInit ==
  /\ clock = 0
  /\ cfg = CHOOSE c \in Configs : c.IdleTimeout = 1
  /\ heap = [a \in 1..MaxRecords |->
               [CreateSession(<<0, 0, 0, 0, 0>>) EXCEPT !.ID = newSessionID(ManagerID, a),
                                                        !.CookieValue = newSessionID(ManagerID, a)]]
  /\ data = <<>>
  /\ created = heap
  /\ last = NoCall
  /\ storage = <<>>
  /\ upd = NoUpdate
  /\ NsInit
  /\ LockInit
  /\ reqs \in { <<[cookie |-> NoCookie, ctx |-> c]>> : c \in Contexts }
  /\ MgrInit

CallPopulateRequestContext ==
  \E r \in DOMAIN reqs, a \in Live :
    LET res == PopulateRequestContext(reqs, r, heap[a])
    IN /\ Len(reqs) < MaxRequests
       /\ reqs' = res.reqs
       /\ last' = [op |-> "PopulateRequestContext", a |-> a, key |-> r, r |-> <<>>,
                   pre |-> heap[a], stored |-> FALSE,
                   calls |-> << <<"return", res.r>> >>,
                   err |-> FALSE, storeErr |-> FALSE]
       /\ UNCHANGED <<clock, cfg, heap, data, created, storage, upd, nsVars, lockVars, mgrVars>>

CtxNext == CallPopulateRequestContext

SpecCtx == CtxInit /\ [][CtxNext]_vars

\* C25: PopulateRequestContext returns a request whose context yields the
\* session under the manager's context key and, under every other key, the
\* value the context of the request it was given yields; the request it was
\* given, and every other request, is as it was.
C25_ContextExtension ==
  [][ last'.op = "PopulateRequestContext"
      => LET r == last'.key
             out == last'.calls[1][2]
         IN /\ out \in DOMAIN reqs'
            /\ Value(reqs'[out].ctx, ManagerContextKey) = last'.pre
            /\ \A k \in OtherKeys : Value(reqs'[out].ctx, k) = Value(reqs[r].ctx, k)
            /\ \A q \in DOMAIN reqs : reqs'[q] = reqs[q]
    ]_vars

\* C25 witness: the request given already carried another session under the
\* manager's key and a value under another key; the request returned yields
\* the new session and the same other value, the request given still yields
\* the old session.
C25_Witness ==
  /\ last.op = "PopulateRequestContext"
  /\ last.calls[1][2] # last.key
  /\ Value(reqs[last.key].ctx, ManagerContextKey) \notin {NULL, last.pre}
  /\ Value(reqs[last.calls[1][2]].ctx, ManagerContextKey) = last.pre
  /\ \E k \in OtherKeys :
       /\ Value(reqs[last.key].ctx, k) # NULL
       /\ Value(reqs[last.calls[1][2]].ctx, k) = Value(reqs[last.key].ctx, k)

\* C26: a session CreateSession returns has each deadline equal to the time
\* the call read for it plus the manager's setting: IdleTime the IdleTimeout,
\* RenewalTime the RenewalTimeout, LifeTime the Lifetime; every read lies
\* between the call and its return, and IdleTime is earlier than LifeTime
\* whenever IdleTimeout is smaller than Lifetime.
C26_CreationDeadlines ==
  last.op = "CreateSession"
  => /\ cur.IdleTime = last.r[2] + cfg.IdleTimeout
     /\ cur.LifeTime = last.r[3] + cfg.Lifetime
     /\ cur.RenewalTime = last.r[4] + cfg.RenewalTimeout
     /\ \A i \in 1..5 : last.r[i] <= clock /\ clock - last.r[i] <= MaxJitter
     /\ cfg.IdleTimeout < cfg.Lifetime => cur.IdleTime < cur.LifeTime

\* C26 witness: a session created after time has passed, under a setting
\* with IdleTimeout smaller than Lifetime.
C26_Witness ==
  /\ last.op = "CreateSession"
  /\ clock > 0
  /\ cfg.IdleTimeout < cfg.Lifetime
  /\ cur.IdleTime = clock + cfg.IdleTimeout
  /\ cur.IdleTime < cur.LifeTime

\* ------------------------------------------------------ SessionMiddleware
\* The handler SessionMiddleware returns, serving one request that carries
\* the cookie c (or none) and an empty context.  r.Cookie's error and
\* Store.Get's error are logged and the handler goes on: without a cookie
\* cookie.Value dereferences nil, and without a session WatchTimeouts
\* dereferences nil; the handler panics and next is not reached.  Otherwise
\* WatchTimeouts runs on the stored session, PopulateRequestContext makes a
\* request whose context has the session, that request is dropped, and next
\* is called with the request that arrived.  reqs[1] is the request that
\* arrived, reqs[2] the one PopulateRequestContext returned.
\* a handler that hands next the request PopulateRequestContext returned
SessionMiddlewarePassesContext(h, d, c, r) ==
  LET req == <<[cookie |-> c, ctx |-> Background]>>
      g == IF c = NoCookie THEN [ok |-> FALSE] ELSE Get(d, c.Value)
  IN IF ~g.ok
       THEN [heap |-> h, data |-> d, reqs |-> req, a |-> 0, end |-> r[1],
             calls |-> << <<"panic">> >>]
       ELSE LET w == WatchTimeouts(h, d, g.session, r)
                p == PopulateRequestContext(req, 1, w.heap[g.session])
            IN [heap |-> w.heap, data |-> w.data, reqs |-> p.reqs,
                a |-> g.session, end |-> w.end,
                calls |-> w.calls \o << <<"next", p.r>> >>]

SessionMiddleware(h, d, c, r) ==
  LET req == <<[cookie |-> c, ctx |-> Background]>>
      g == IF c = NoCookie THEN [ok |-> FALSE] ELSE Get(d, c.Value)
  IN IF ~g.ok
       THEN [heap |-> h, data |-> d, reqs |-> req, a |-> 0, end |-> r[1],
             calls |-> << <<"panic">> >>]
       ELSE LET w == WatchTimeouts(h, d, g.session, r)
                p == PopulateRequestContext(req, 1, w.heap[g.session])
            IN [heap |-> w.heap, data |-> w.data, reqs |-> p.reqs,
                a |-> g.session, end |-> w.end,
                calls |-> w.calls \o << <<"next", 1>> >>]

\* the cookies a request can carry: none, or the manager's cookie with an id
Cookies == {NoCookie} \cup { [Value |-> id] : id \in KnownIDs }

CallSessionMiddleware ==
  \E c \in Cookies, r \in Reads(clock, 6) :
    LET m == SessionMiddleware(heap, data, c, r)
    IN /\ heap' = m.heap
       /\ data' = m.data
       /\ reqs' = m.reqs
       /\ clock' = m.end
       /\ last' = [op |-> "SessionMiddleware", a |-> m.a, key |-> c, r |-> r,
                   pre |-> IF m.a = 0 THEN NULL ELSE heap[m.a],
                   stored |-> m.a # 0, calls |-> m.calls,
                   err |-> FALSE, storeErr |-> FALSE]
       /\ UNCHANGED <<cfg, created, storage, upd, nsVars, lockVars, mgrVars>>

HttpNext ==
  \/ Tick
  \/ CallCreateSession
  \/ CallSave
  \/ CallInvalidateSession
  \/ CallSessionMiddleware

SpecHttp == Init /\ [][HttpNext]_vars

\* the request the handler gave to next
Passed == reqs[last.calls[Len(last.calls)][2]]

\* C27: the handler calls next only for a request that carries the manager's
\* cookie, whose cookie value names a session in the store, and whose session
\* is Valid after the timeout evaluation.
C27_UnauthenticatedStopped ==
  ( /\ last.op = "SessionMiddleware"
    /\ Called("next") )
  => /\ last.key # NoCookie
     /\ last.stored
     /\ cur.Status = Valid

\* C28: whenever the handler calls next, the request it passes yields, under
\* the manager's context key, the session it loaded for the cookie as the
\* timeout evaluation left it.
C28_DownstreamVisibility ==
  ( /\ last.op = "SessionMiddleware"
    /\ Called("next") )
  => Value(Passed.ctx, ManagerContextKey) = cur

\* ------------------------------------------- the codec-backed Store alone
\* error values: nil, the container's errors and the Codec's errors
Nil == [error |-> "nil"]
NotFound == [error |-> "container: not found"]
IOError == [error |-> "container: io"]
EncodeError == [error |-> "codec: encode"]
DecodeError == [error |-> "codec: decode"]

\* &Session{}: every field has its zero value
ZeroSession ==
  [ID |-> EmptyString, Status |-> Valid, Data |-> <<>>,
   IdleTime |-> 0, LifeTime |-> 0, RenewalTime |-> 0,
   CookieName |-> EmptyString, CookieValue |-> EmptyString, CookieExpires |-> 0]

\* a Store.Save that calls put before it looks at the encode error
StoreSaveCallPutsFirst(st, session, encErr, putErr) ==
  [st |-> StoreSave(st, session, putErr = Nil),
   err |-> IF encErr # Nil THEN encErr ELSE putErr,
   calls |-> << <<"encode">>, <<"put", session.ID>> >>]

\* Store.Save as its caller sees it: encErr is what codec.encode returns,
\* putErr what storage.put returns
StoreSaveCall(st, session, encErr, putErr) ==
  IF encErr # Nil
    THEN [st |-> st, err |-> encErr, calls |-> << <<"encode">> >>]
    ELSE [st |-> StoreSave(st, session, putErr = Nil),
          err |-> putErr,
          calls |-> << <<"encode">>, <<"put", session.ID>> >>]

\* Store.Get as its caller sees it: getErr is what storage.get returns for a
\* key it has, decErr what codec.decode returns
StoreGetCall(st, sessionID, getErr, decErr) ==
  LET g == StoreGet(st, sessionID)
      err == IF ~g.ok THEN NotFound ELSE getErr
  IN IF err # Nil
       THEN [session |-> ZeroSession, err |-> err, calls |-> << <<"get", sessionID>> >>]
       ELSE IF decErr # Nil
         THEN [session |-> ZeroSession, err |-> decErr,
               calls |-> << <<"get", sessionID>>, <<"decode">> >>]
         ELSE [session |-> g.session, err |-> Nil,
               calls |-> << <<"get", sessionID>>, <<"decode">> >>]

CallStoreSave ==
  \E a \in DOMAIN heap, encErr \in {Nil, EncodeError}, putErr \in {Nil, IOError} :
    LET s == StoreSaveCall(storage, heap[a], encErr, putErr)
    IN /\ storage' = s.st
       /\ last' = [op |-> "Store.Save", a |-> a, key |-> heap[a].ID,
                   r |-> <<encErr, putErr>>, pre |-> heap[a],
                   stored |-> heap[a].ID \in DOMAIN storage,
                   calls |-> s.calls \o << <<"return", s.err>> >>,
                   err |-> s.err # Nil, storeErr |-> s.err # Nil]
       /\ UNCHANGED <<clock, cfg, heap, data, created, upd, nsVars, lockVars, httpVars, mgrVars>>

CallStoreGet ==
  \E id \in StoreIDs, getErr \in {Nil, IOError}, decErr \in {Nil, DecodeError} :
    LET g == StoreGetCall(storage, id, getErr, decErr)
    IN /\ last' = [op |-> "Store.Get", a |-> 0, key |-> id,
                   r |-> <<getErr, decErr>>, pre |-> NULL,
                   stored |-> id \in DOMAIN storage,
                   calls |-> g.calls \o << <<"return", g.session, g.err>> >>,
                   err |-> g.err # Nil, storeErr |-> g.err # Nil]
       /\ UNCHANGED <<clock, cfg, heap, data, created, storage, upd, nsVars, lockVars, httpVars, mgrVars>>

\* Store.Delete: the container's delete, which may fail
CallStoreDelete ==
  \E id \in StoreIDs, delErr \in {Nil, IOError} :
    /\ storage' = IF delErr = Nil THEN delete(storage, id) ELSE storage
    /\ last' = [op |-> "Store.Delete", a |-> 0, key |-> id,
                r |-> <<delErr>>, pre |-> NULL,
                stored |-> id \in DOMAIN storage,
                calls |-> << <<"delete", id>>, <<"return", delErr>> >>,
                err |-> delErr # Nil, storeErr |-> delErr # Nil]
    /\ UNCHANGED <<clock, cfg, heap, data, created, upd, nsVars, lockVars, httpVars, mgrVars>>

\* the caller changes the Data of a session it holds
DataValues == { <<>>, <<"user">> }

CallSetData ==
  \E a \in DOMAIN heap, v \in DataValues :
    /\ heap[a].Data # v
    /\ heap' = [heap EXCEPT ![a].Data = v]
    /\ last' = NoCall
    /\ UNCHANGED <<clock, cfg, data, created, storage, upd, nsVars, lockVars, httpVars, mgrVars>>

CodecStoreNext ==
  \/ CallStoreSave
  \/ CallStoreGet
  \/ CallStoreDelete
  \/ CallSetData

\* the sessions the caller holds, an empty container, one timeout setting
CodecStoreInit ==
  /\ StoreInit
  /\ cfg.IdleTimeout = 1

SpecCodecStore == CodecStoreInit /\ [][CodecStoreNext]_vars

\* what the last call returned
Returned == last.calls[Len(last.calls)]

\* C29: a Store.Save whose encode fails returns the encode error, does not
\* call put and leaves the container as it was; a Save that returns nil
\* leaves the container mapping the session's own identifier to the encoded
\* session and every other key as it was.  A Store.Get returns the
\* container's not-found error or the codec's decode error as it got it, and
\* with an error it returns the empty session, never the decoded one.
C29_CodecStoreSaveGet ==
  [][ /\ ( /\ last'.op = "Store.Save"
           /\ last'.r[1] # Nil )
        => /\ Returned' = <<"return", last'.r[1]>>
           /\ ~Called("put")'
           /\ storage' = storage
      /\ ( /\ last'.op = "Store.Save"
           /\ Returned' = <<"return", Nil>> )
        => /\ DOMAIN storage' = DOMAIN storage \cup {last'.pre.ID}
           /\ storage'[last'.pre.ID] = encode(last'.pre)
           /\ \A k \in DOMAIN storage \ {last'.pre.ID} : storage'[k] = storage[k]
      /\ ( last'.op = "Store.Get" )
        => /\ storage' = storage
           /\ ~last'.stored => Returned' = <<"return", ZeroSession, NotFound>>
           /\ ( /\ last'.stored
                /\ last'.r[1] = Nil
                /\ last'.r[2] # Nil )
              => Returned' = <<"return", ZeroSession, last'.r[2]>>
           /\ Returned'[3] # Nil => Returned'[2] = ZeroSession
           /\ Returned'[3] = Nil => Returned'[2] = decode(storage[last'.key])
    ]_vars

\* a Save has put a session in the container, and a Get of it whose decode
\* failed has returned
C29_Witness ==
  /\ last.op = "Store.Get"
  /\ last.stored
  /\ \E a \in DOMAIN heap : storage[last.key] = encode(heap[a])
  /\ last.r = <<Nil, DecodeError>>

\* C30: every manager a successful NewSessionManager returned has an idle
\* timeout of 900 s, a lifetime of 7200 s, a renewal timeout of 60 s, a
\* context key that is not the empty string, and the store the call was given.
C30_DefaultConfiguration ==
  \A i \in 1..Len(constructed) :
    ~constructed[i].err
      => /\ constructed[i].manager.IdleTimeout = 900
         /\ constructed[i].manager.Lifetime = 7200
         /\ constructed[i].manager.RenewalTimeout = 60
         /\ constructed[i].manager.contextKey # EmptyString
         /\ constructed[i].manager.Store = constructed[i].store

\* two managers made with different stores, as the tests make them
C30_Witness ==
  \E i, j \in 1..Len(constructed) :
    /\ i < j
    /\ ~constructed[i].err
    /\ ~constructed[j].err
    /\ constructed[j].namespace = "test_manager"
    /\ constructed[j].store = "MockStorage"
    /\ constructed[i].store = "InMemoryStore"

\* ------------------------------------------- evaluations between deadlines
\* The settings of TestNoTimeExpired (renewal 1 s, idle 2 s, lifetime 5 s)
\* with the clock counting half seconds, so that a call can fall strictly
\* between a session's creation and its first deadline.
HalfSecondConfigs ==
  { [IdleTimeout |-> 4, RenewalTimeout |-> 2, Lifetime |-> 10] }

FrameInit ==
  /\ clock = 0
  /\ cfg \in HalfSecondConfigs
  /\ heap = [a \in Addr |-> NULL]
  /\ data = <<>>
  /\ created = <<>>
  /\ last = NoCall
  /\ storage = <<>>
  /\ upd = NoUpdate
  /\ NsInit
  /\ HttpInit
  /\ MgrInit
  /\ LockInit

SpecFrame == FrameInit /\ [][Next]_vars

\* C31: a WatchTimeouts whose time reads are all before the session's idle,
\* lifetime and renewal deadlines changes IdleTime only: the session is as it
\* was except for IdleTime, which is the read plus the idle timeout, and the
\* call issues no store operation and leaves the store as it was.
C31_NoExpiryFrame ==
  [][ ( /\ last'.op = "WatchTimeouts"
        /\ last' # last
        /\ Before(last'.r[3], last'.pre.IdleTime)
        /\ Before(last'.r[3], last'.pre.LifeTime)
        /\ Before(last'.r[3], last'.pre.RenewalTime) )
      => /\ last'.pre = heap[last'.a]
         /\ heap'[last'.a] = [heap[last'.a] EXCEPT !.IdleTime = last'.r[4] + cfg.IdleTimeout]
         /\ last'.calls = <<>>
         /\ data' = data
    ]_vars

\* a call made after the session's creation and before its deadlines has
\* moved IdleTime and nothing else
C31_Witness ==
  /\ last.op = "WatchTimeouts"
  /\ Before(last.r[3], last.pre.IdleTime)
  /\ Before(last.r[3], last.pre.LifeTime)
  /\ Before(last.r[3], last.pre.RenewalTime)
  /\ cur.IdleTime # last.pre.IdleTime
  /\ Stored(data, heap, last.a)

\* C32: every entry of the in-memory store is kept under the key that equals
\* the ID field of the session it holds.
C32_StoreKeyInvariant ==
  \A k \in DOMAIN data : heap[data[k]].ID = k

\* --------------------------------- goroutines calling NewSessionManager
\* NewSessionManager reads the registry map and writes it in two statements
\* with no lock held: getInstance takes the mutex only while _instance is
\* nil, which it never is after newNameSpaceManager.  A goroutine is at
\* "check" before its map read and at "insert" after it; snap is the registry
\* as its read saw it.
NsCall(p) ==
  \E namespace \in Namespaces, store \in Stores :
    /\ procs[p].pc = "idle"
    /\ Len(constructed) + Cardinality({ q \in Procs : procs[q].pc \in {"check", "insert"} })
         < MaxManagers
    /\ procs' = [procs EXCEPT ![p] = [NoProc EXCEPT !.pc = "check",
                                                    !.op = <<namespace, store>>]]
    /\ UNCHANGED <<clock, cfg, heap, data, created, last, storage, upd, nsVars, lock, httpVars, mgrVars>>

\* line 91: _, ok := managerIDs.getInstance()[namespace]
NsCheck(p) ==
  /\ procs[p].pc = "check"
  /\ procs' = [procs EXCEPT ![p].pc = "insert", ![p].snap = managerIDs]
  /\ UNCHANGED <<clock, cfg, heap, data, created, last, storage, upd, nsVars, lock, httpVars, mgrVars>>

\* lines 92-112: the error return, or the map write and the manager
NsInsert(p) ==
  LET m == NewSessionManager(procs[p].snap, procs[p].op[1], procs[p].op[2], clock)
  IN /\ procs[p].pc = "insert"
     /\ managerIDs' = managerIDs \cup m.ids
     /\ constructed' = Append(constructed, [namespace |-> procs[p].op[1],
                                            store |-> procs[p].op[2],
                                            err |-> m.err,
                                            manager |-> m.manager])
     /\ procs' = [procs EXCEPT ![p] = NoProc]
     /\ UNCHANGED <<clock, cfg, heap, data, created, last, storage, upd, lock, httpVars, mgrVars>>

\* Two goroutines inside the unsynchronised map accesses, one of them about
\* to write, are a data race on a Go map: besides the interleavings above,
\* the runtime may stop the process ("concurrent map read and map write").
NsFatal ==
  /\ \E p, q \in Procs :
       /\ p # q
       /\ procs[p].pc = "insert"
       /\ procs[p].op[1] \notin procs[p].snap
       /\ procs[q].pc \in {"check", "insert"}
  /\ procs' = [p \in Procs |-> [procs[p] EXCEPT !.pc = "fatal"]]
  /\ UNCHANGED <<clock, cfg, heap, data, created, last, storage, upd, nsVars, lock, httpVars, mgrVars>>

NsRaceNext ==
  \/ \E p \in Procs : NsCall(p)
  \/ \E p \in Procs : NsCheck(p)
  \/ \E p \in Procs : NsInsert(p)
  \/ NsFatal

SpecNsRace == Init /\ [][NsRaceNext]_vars

\* C33: of the NewSessionManager calls that name one namespace, whichever
\* way the goroutines making them interleave, at most one returns a manager;
\* every other one returns the error.
C33_RegistrationRaceFree ==
  \A i, j \in 1..Len(constructed) :
    ( /\ i # j
      /\ constructed[i].namespace = constructed[j].namespace )
    => \/ constructed[i].err
       \/ constructed[j].err

\* ------------------------------- requests rotating one session concurrently
\* One session, created at 0 and saved; each goroutine serves one request
\* that carries the session's first identifier.  The store's lock covers its
\* own map accesses only (Get, Update), so every statement of RenewSession
\* and WatchTimeouts that touches the session is a step of its own, and the
\* writes to the session the goroutines share through the stored pointer are
\* not ordered by anything.
RotateInit ==
  /\ clock = 0
  /\ cfg = CHOOSE c \in Configs : c.IdleTimeout = 2
  /\ heap = [a \in Addr |-> CreateSession(<<0, 0, 0, 0, 0>>)]
  /\ data = Save(<<>>, heap, 1)
  /\ created = heap
  /\ last = NoCall
  /\ storage = <<>>
  /\ upd = NoUpdate
  /\ NsInit
  /\ HttpInit
  /\ MgrInit
  /\ LockInit

\* the identifier the requests' cookies carry
FirstID == created[1].ID

\* SessionMiddleware: Store.Get(cookie.Value), then WatchTimeouts finds the
\* idle and lifetime deadlines not passed and the renewal deadline passed
RotLoad(p) ==
  LET g == Get(data, FirstID)
  IN /\ procs[p].pc = "idle"
     /\ procs[p].done = "none"
     /\ g.ok
     /\ ~After(clock, heap[g.session].IdleTime)
     /\ ~After(clock, heap[g.session].LifeTime)
     /\ After(clock, heap[g.session].RenewalTime)
     /\ procs' = [procs EXCEPT ![p].pc = "ids", ![p].op = "RenewSession", ![p].got = g]
     /\ UNCHANGED <<clock, cfg, heap, data, created, last, storage, upd, nsVars, lock, httpVars, mgrVars>>

\* RenewSession: newId := s.newSessionID(); oldId := session.ID
RotIds(p) ==
  /\ procs[p].pc = "ids"
  /\ procs' = [procs EXCEPT ![p].pc = "setID",
                            ![p].snap = [newId |-> newSessionID(ManagerID, clock),
                                         oldId |-> heap[procs[p].got.session].ID]]
  /\ UNCHANGED <<clock, cfg, heap, data, created, last, storage, upd, nsVars, lock, httpVars, mgrVars>>

\* session.ID = newId
RotSetID(p) ==
  /\ procs[p].pc = "setID"
  /\ heap' = [heap EXCEPT ![procs[p].got.session].ID = procs[p].snap.newId]
  /\ procs' = [procs EXCEPT ![p].pc = "setCookie"]
  /\ UNCHANGED <<clock, cfg, data, created, last, storage, upd, nsVars, lock, httpVars, mgrVars>>

\* session.Cookie.Value = newId; session.Status = Valid
RotSetCookie(p) ==
  /\ procs[p].pc = "setCookie"
  /\ heap' = [heap EXCEPT ![procs[p].got.session].CookieValue = procs[p].snap.newId,
                          ![procs[p].got.session].Status = Valid]
  /\ procs' = [procs EXCEPT ![p].pc = "update"]
  /\ UNCHANGED <<clock, cfg, data, created, last, storage, upd, nsVars, lock, httpVars, mgrVars>>

\* s.Store.Update(oldId, session), under the store's lock
RotUpdate(p) ==
  /\ procs[p].pc = "update"
  /\ data' = Update(data, procs[p].snap.oldId, procs[p].got.session)
  /\ procs' = [procs EXCEPT ![p].pc = "deadlines"]
  /\ UNCHANGED <<clock, cfg, heap, created, last, storage, upd, nsVars, lock, httpVars, mgrVars>>

\* back in WatchTimeouts: RenewalTime and IdleTime are reset
RotDeadlines(p) ==
  /\ procs[p].pc = "deadlines"
  /\ heap' = [heap EXCEPT ![procs[p].got.session].RenewalTime = clock + cfg.RenewalTimeout,
                          ![procs[p].got.session].IdleTime = clock + cfg.IdleTimeout]
  /\ procs' = [procs EXCEPT ![p] = [NoProc EXCEPT !.done = "RenewSession"]]
  /\ UNCHANGED <<clock, cfg, data, created, last, storage, upd, nsVars, lock, httpVars, mgrVars>>

RotateNext ==
  \/ Tick
  \/ \E p \in Procs : RotLoad(p)
  \/ \E p \in Procs : RotIds(p)
  \/ \E p \in Procs : RotSetID(p)
  \/ \E p \in Procs : RotSetCookie(p)
  \/ \E p \in Procs : RotUpdate(p)
  \/ \E p \in Procs : RotDeadlines(p)

SpecRotate == RotateInit /\ [][RotateNext]_vars

\* every goroutine has rotated the session and finished
AllRotated == \A p \in Procs : procs[p].done = "RenewSession"

\* C34: once the requests that loaded the session with renewal due have all
\* rotated it, the identifier they loaded it under is not in the store, and
\* the session is in the store under exactly one identifier.
C34_ConcurrentRotation ==
  AllRotated
    => /\ ~Get(data, FirstID).ok
       /\ Cardinality({ k \in DOMAIN data : data[k] = 1 }) = 1

\* ------------------------------------------------- the Manager variant
\* Manager keeps sessions by value in a Storer whose calls are each atomic
\* (the MockStorage of the tests holds its mutex for one call).  Its session
\* has ID, Data, Status, IdleTime and ExpiryTime, and its timeouts are fixed by
\* NewManager: 3 minutes idle, 2 hours expiry.  The clock of this
\* specification counts idle timeouts.
INVALID == 0
VALID == 1
idleTimeout == 1
expiryTimeout == 40 * idleTimeout

\* MockStorage: Get, Save, Delete, Update on a map of Session values
MockGet(st, sessionID) ==
  IF sessionID \in DOMAIN st
    THEN [ok |-> TRUE, session |-> st[sessionID]]
    ELSE [ok |-> FALSE, session |-> NULL]

MockSave(st, session) ==
  [k \in DOMAIN st \cup {session.ID} |-> IF k = session.ID THEN session ELSE st[k]]

MockUpdate(st, sessionID, newSession) ==
  [k \in (DOMAIN st \ {sessionID}) \cup {newSession.ID} |->
     IF k = newSession.ID THEN newSession ELSE st[k]]

\* Manager.CreateSession: r[1] is newSessionID's clock read, r[2] and r[3]
\* the reads for IdleTime and ExpiryTime; the session is saved
ManagerCreateSession(st, r) ==
  LET newSession == [ID |-> newSessionID(ManagerID, r[1]),
                     Data |-> <<>>,
                     Status |-> VALID,
                     IdleTime |-> r[2] + idleTimeout,
                     ExpiryTime |-> r[3] + expiryTimeout]
  IN [st |-> MockSave(st, newSession), session |-> newSession]

\* Manager.InvalidateSession(sessionID)
ManagerInvalidateSession(st, sessionID, now) ==
  LET g == MockGet(st, sessionID)
  IN IF ~g.ok
       THEN [st |-> st, err |-> TRUE]
       ELSE [st |-> MockUpdate(st, sessionID,
                               [g.session EXCEPT !.Status = INVALID,
                                                 !.IdleTime = now - idleTimeout]),
             err |-> FALSE]

\* the ids a cookie given to the Manager's middleware can carry
ManagerIDsKnown == DOMAIN mstore \cup invalidated \cup { newSessionID("other", 0) }

CallManagerCreateSession ==
  \E r \in Reads(clock, 3) :
    LET c == ManagerCreateSession(mstore, r)
    IN /\ Cardinality(DOMAIN mstore \cup {c.session.ID}) <= MaxSessions
       /\ mstore' = c.st
       /\ clock' = r[3]
       /\ last' = [op |-> "Manager.CreateSession", key |-> c.session.ID,
                   r |-> r, stored |-> c.session.ID \in DOMAIN mstore, err |-> FALSE]
       /\ UNCHANGED <<cfg, heap, data, created, storage, upd, nsVars, lockVars,
                      httpVars, invalidated>>

CallManagerInvalidateSession ==
  \E sessionID \in ManagerIDsKnown, r \in Reads(clock, 1) :
    LET i == ManagerInvalidateSession(mstore, sessionID, r[1])
    IN /\ mstore' = i.st
       /\ invalidated' = IF i.err THEN invalidated ELSE invalidated \cup {sessionID}
       /\ clock' = r[1]
       /\ last' = [op |-> "Manager.InvalidateSession", key |-> sessionID,
                   r |-> r, stored |-> sessionID \in DOMAIN mstore, err |-> i.err]
       /\ UNCHANGED <<cfg, heap, data, created, storage, upd, nsVars, lockVars, httpVars>>

\* Manager.Middleware up to next.ServeHTTP: a missing cookie is answered 403;
\* an unknown id, a passed expiry time and a passed idle time are answered
\* 401; otherwise the request goes to next with the session in its context
MiddlewareBefore(p) ==
  \E c \in {NoCookie} \cup { [Value |-> id] : id \in ManagerIDsKnown } :
    /\ procs[p].pc = "idle"
    /\ procs' = [procs EXCEPT ![p] =
         IF c = NoCookie
           THEN [NoProc EXCEPT !.done = "403"]
           ELSE LET g == MockGet(mstore, c.Value)
                IN IF ~g.ok
                     THEN [NoProc EXCEPT !.done = "401"]
                     ELSE IF After(clock, g.session.ExpiryTime) \/ After(clock, g.session.IdleTime)
                       THEN [NoProc EXCEPT !.done = "401"]
                       ELSE [NoProc EXCEPT !.pc = "next", !.op = "Middleware",
                                           !.snap = c.Value]]
    /\ UNCHANGED <<clock, cfg, heap, data, created, last, storage, upd, nsVars, lock,
                   httpVars, mgrVars>>

\* next.ServeHTTP has returned; the session is fetched again from the store
MiddlewareRefetch(p) ==
  LET g == MockGet(mstore, procs[p].snap)
  IN /\ procs[p].pc = "next"
     /\ procs' = [procs EXCEPT ![p] =
          IF g.ok THEN [procs[p] EXCEPT !.pc = "reset", !.got = g.session]
                  ELSE [NoProc EXCEPT !.done = "200"]]
     /\ UNCHANGED <<clock, cfg, heap, data, created, last, storage, upd, nsVars, lock,
                    httpVars, mgrVars>>

\* a VALID session gets a new IdleTime and is written back with Store.Update
MiddlewareReset(p) ==
  /\ procs[p].pc = "reset"
  /\ mstore' = IF procs[p].got.Status = VALID
                 THEN MockUpdate(mstore, procs[p].snap,
                                 [procs[p].got EXCEPT !.IdleTime = clock + idleTimeout])
                 ELSE mstore
  /\ procs' = [procs EXCEPT ![p] = [NoProc EXCEPT !.done = "200"]]
  /\ UNCHANGED <<clock, cfg, heap, data, created, last, storage, upd, nsVars, lock,
                 httpVars, invalidated>>

ManagerNext ==
  \/ Tick
  \/ CallManagerCreateSession
  \/ CallManagerInvalidateSession
  \/ \E p \in Procs : MiddlewareBefore(p)
  \/ \E p \in Procs : MiddlewareRefetch(p)
  \/ \E p \in Procs : MiddlewareReset(p)

\* NewManager with an empty store; the SessionManager's settings play no part
ManagerInit ==
  /\ Init
  /\ cfg.IdleTimeout = 1

SpecManager == ManagerInit /\ [][ManagerNext]_vars

\* C35: Manager.InvalidateSession on a stored id leaves the record in the
\* store with Status INVALID and IdleTime before the current time; on an id
\* that is not stored it returns the error and the store is as it was; the
\* middleware does not pass a request with an invalidated id to next, and an
\* invalidated session stays in the store with Status INVALID and its
\* IdleTime before the current time (it is never reset).
C35_GraceWindowInvalidation ==
  [][ /\ ( /\ last'.op = "Manager.InvalidateSession"
           /\ last' # last
           /\ last'.stored )
        => /\ ~last'.err
           /\ MockGet(mstore', last'.key).ok
           /\ mstore'[last'.key].Status = INVALID
           /\ mstore'[last'.key].IdleTime < clock'
      /\ ( /\ last'.op = "Manager.InvalidateSession"
           /\ last' # last
           /\ ~last'.stored )
        => /\ last'.err
           /\ mstore' = mstore
      /\ \A p \in Procs :
           ( /\ procs[p].pc = "idle"
             /\ procs'[p].pc = "next" )
           => procs'[p].snap \notin invalidated
      /\ \A id \in invalidated \cap DOMAIN mstore :
           /\ id \in DOMAIN mstore'
           /\ mstore'[id].IdleTime < clock'
           /\ mstore'[id].Status = INVALID
    ]_vars

====
